---- MODULE Spec2Model ----
(***************************************************************************)
(* AccuCheck (src/app.py): a Streamlit script that is executed top to      *)
(* bottom on every user interaction.  A run is a thread of the session.    *)
(* A user interaction during a run asks the run to stop and starts the new *)
(* run at once, on the same st.session_state; nothing orders the two       *)
(* threads.  A run asked to stop goes on to its next yield point, an st.*  *)
(* call or an access of st.session_state, and ends there, before the       *)
(* element is written and before st.session_state is read or written.      *)
(* What a run does with the list an access has returned, the .append and   *)
(* the provider call that takes the list, is no yield point: a run asked   *)
(* to stop after the access does it, on the list as it is by then.         *)
(*                                                                         *)
(* The position pc of a run is the yield point it executes next: the       *)
(* statements before that point are done.  A step of a run that was not    *)
(* asked to stop executes the st.* call or the access it is at and the     *)
(* statements up to the next yield point that follows a statement with an  *)
(* effect.  A run waits in the provider calls.                              *)
(*                                                                         *)
(* runs holds the runs of the session that have not ended and the latest   *)
(* run, with how it ended once it has; every run carries its globals and   *)
(* what it has done (stages).  The file in the upload widget, the chat     *)
(* input on the page, st.session_state and the environment variable        *)
(* GROQ_API_KEY are the session.                                           *)
(*                                                                         *)
(* Texts are strings.  The emoji prefixes of the source's literals are     *)
(* left out because the module is ASCII; the wording is otherwise the      *)
(* source's.                                                               *)
(***************************************************************************)
EXTENDS Integers, Sequences, FiniteSets, TLC

VARIABLES GROQ_API_KEY, file_widget, chat_input_shown, session_state, runs

vars == <<GROQ_API_KEY, file_widget, chat_input_shown, session_state, runs>>

(***************************************************************************)
(* Bounds of the model.                                                    *)
(***************************************************************************)
MaxRows == 3
MaxSales == 2
MaxSessionRows == 1
MaxChats == 2
MaxRuns == 2

(***************************************************************************)
(* Inputs.                                                                 *)
(***************************************************************************)
ColumnNames == {"Region", "Sales", "Profit"}
Regions == {"A", "B", "C"}
SalesValues == -1 .. MaxSales
Questions == {"why?"}
Completions == {"r1"}
ProviderErrors == {"timeout"}

\* The rows of a table with columns cols: a category of regions under
\* Region, a number of sales under every other column.
RowsOver(cols, regions, sales) ==
    {[c \in cols |-> IF c = "Region" THEN r ELSE v] :
        r \in regions, v \in sales}

\* What the provider does with one call: a completion, or an exception.
ProviderResults ==
    {[ok |-> TRUE, text |-> t] : t \in Completions}
        \cup {[ok |-> FALSE, text |-> e] : e \in ProviderErrors}
NoCall == [ok |-> FALSE, text |-> ""]

(***************************************************************************)
(* Texts of the source.                                                    *)
(***************************************************************************)
COMMENTARY_DISABLED == "AI Commentary tidak aktif (API Key belum diatur)."
COMMENTARY_ERROR == "Error AI Commentary: "
CHAT_DISABLED == "AI Chat tidak aktif (API Key belum diatur)."
CHAT_ERROR == "Error chat AI: "
SYSTEM_PERSONA == "Anda adalah analis bisnis yang membantu memahami data penjualan."

Turn(role, content) == [role |-> role, content |-> content]

Range(seq) == {seq[i] : i \in DOMAIN seq}

(***************************************************************************)
(* Column validation: {"Region", "Sales"}.issubset(df.columns).            *)
(***************************************************************************)
HasRequiredColumns_RegionOnly(df) == "Region" \in df.columns

HasRequiredColumns(df) == {"Region", "Sales"} \subseteq df.columns

(***************************************************************************)
(* The aggregation query.                                                  *)
(*   SELECT Region, SUM(Sales) AS Total_Sales FROM df                      *)
(*   GROUP BY Region ORDER BY Total_Sales DESC                             *)
(***************************************************************************)
\* The position of the group of category r in groups, 0 when there is none.
GroupIndex(groups, r) ==
    IF \E i \in 1..Len(groups) : groups[i].Region = r
    THEN CHOOSE i \in 1..Len(groups) : groups[i].Region = r
    ELSE 0

\* GROUP BY Region with SUM(Sales): every row is added to the group of its
\* category, a category seen for the first time opens a group.
RECURSIVE GroupByRegion_Clamped(_, _)
GroupByRegion_Clamped(rows, groups) ==
    IF rows = <<>> THEN groups
    ELSE LET row == Head(rows)
             i == GroupIndex(groups, row["Region"])
             v == IF row["Sales"] < 0 THEN 0 ELSE row["Sales"]
         IN  IF i = 0
             THEN GroupByRegion_Clamped(Tail(rows),
                      Append(groups, [Region |-> row["Region"],
                                      Total_Sales |-> v]))
             ELSE GroupByRegion_Clamped(Tail(rows),
                      [groups EXCEPT ![i].Total_Sales = @ + v])

RECURSIVE GroupByRegion(_, _)
GroupByRegion(rows, groups) ==
    IF rows = <<>> THEN groups
    ELSE LET row == Head(rows)
             i == GroupIndex(groups, row["Region"])
         IN  IF i = 0
             THEN GroupByRegion(Tail(rows),
                      Append(groups, [Region |-> row["Region"],
                                      Total_Sales |-> row["Sales"]]))
             ELSE GroupByRegion(Tail(rows),
                      [groups EXCEPT ![i].Total_Sales = @ + row["Sales"]])

OrderByTotalSalesDesc_Ascending(groups) ==
    LET n == Len(groups)
        Perms == {p \in [1..n -> 1..n] : \A i, j \in 1..n : i # j => p[i] # p[j]}
    IN  {[i \in 1..n |-> groups[p[i]]] : p \in
            {q \in Perms : \A i \in 1..n, j \in 1..n :
                i < j => groups[q[i]].Total_Sales <= groups[q[j]].Total_Sales}}

\* ORDER BY Total_Sales DESC: the query names no second sort key, so every
\* arrangement of the groups with non-increasing totals is a result the
\* engine may return.
OrderByTotalSalesDesc(groups) ==
    LET n == Len(groups)
        Perms == {p \in [1..n -> 1..n] : \A i, j \in 1..n : i # j => p[i] # p[j]}
    IN  {[i \in 1..n |-> groups[p[i]]] : p \in
            {q \in Perms : \A i \in 1..n, j \in 1..n :
                i < j => groups[q[i]].Total_Sales >= groups[q[j]].Total_Sales}}

\* The query names the columns Region and Sales: duckdb.sql raises on a
\* df without them.
QueryBinds(df) == {"Region", "Sales"} \subseteq df.columns

\* The results duckdb.sql(query).df() may return for df.
query(df) == OrderByTotalSalesDesc(GroupByRegion(df.rows, <<>>))

(***************************************************************************)
(* Rule-based commentary: iloc[0], iloc[-1] and their difference.          *)
(***************************************************************************)
RuleInsight_GapReversed(rs) ==
    [top_region |-> rs[1].Region,
     top_value |-> rs[1].Total_Sales,
     bottom_region |-> rs[Len(rs)].Region,
     bottom_value |-> rs[Len(rs)].Total_Sales,
     gap_value |-> rs[Len(rs)].Total_Sales - rs[1].Total_Sales]

RuleInsight(rs) ==
    [top_region |-> rs[1].Region,
     top_value |-> rs[1].Total_Sales,
     bottom_region |-> rs[Len(rs)].Region,
     bottom_value |-> rs[Len(rs)].Total_Sales,
     gap_value |-> rs[1].Total_Sales - rs[Len(rs)].Total_Sales]

(***************************************************************************)
(* generate_ai_commentary(region_sales): the text it returns and the       *)
(* provider calls it issues, for the client of the run (TRUE when there is  *)
(* one), when the provider answers a call with result.                     *)
(***************************************************************************)
generate_ai_commentary_NoGuard(client, rs, result) ==
    [text |-> IF result.ok THEN result.text
              ELSE COMMENTARY_ERROR \o result.text,
     calls |-> <<[table |-> rs, result |-> result]>>]

generate_ai_commentary_RawError(client, rs, result) ==
    IF ~client
    THEN [text |-> COMMENTARY_DISABLED, calls |-> <<>>]
    ELSE [text |-> result.text,
          calls |-> <<[table |-> rs, result |-> result]>>]

generate_ai_commentary(client, rs, result) ==
    IF ~client
    THEN [text |-> COMMENTARY_DISABLED, calls |-> <<>>]
    ELSE [text |-> IF result.ok THEN result.text
                   ELSE COMMENTARY_ERROR \o result.text,
          calls |-> <<[table |-> rs, result |-> result]>>]

(***************************************************************************)
(* Chat mode, the answer to a question: the text appended as the assistant *)
(* turn and the provider calls issued with the chat history as messages.   *)
(***************************************************************************)
ChatAnswer_CommentarySentinel(client, messages, result) ==
    IF client
    THEN [answer |-> IF result.ok THEN result.text
                     ELSE CHAT_ERROR \o result.text,
          calls |-> <<[messages |-> messages, result |-> result]>>]
    ELSE [answer |-> COMMENTARY_DISABLED, calls |-> <<>>]

ChatAnswer(client, messages, result) ==
    IF client
    THEN [answer |-> IF result.ok THEN result.text
                     ELSE CHAT_ERROR \o result.text,
          calls |-> <<[messages |-> messages, result |-> result]>>]
    ELSE [answer |-> CHAT_DISABLED, calls |-> <<>>]

SeedHistory_AssistantFirst(text) ==
    <<Turn("assistant", text), Turn("system", SYSTEM_PERSONA)>>

\* The initial chat history.
SeedHistory(text) == <<Turn("system", SYSTEM_PERSONA), Turn("assistant", text)>>

(***************************************************************************)
(* The session state: lines 156-166, and the appends of lines 177 and 195. *)
(***************************************************************************)
ChatHistoryAbsent_Always(ss) == TRUE

\* Line 156: "chat_history" not in st.session_state
ChatHistoryAbsent(ss) == "chat_history" \notin DOMAIN ss

\* Lines 157-166: st.session_state.chat_history = [...]
InitChatHistory(ss, text) == [chat_history |-> SeedHistory(text)]

\* st.session_state.chat_history.append(turn)
AppendTurn(ss, turn) == [chat_history |-> Append(ss.chat_history, turn)]

(***************************************************************************)
(* A run of the script.                                                    *)
(*                                                                         *)
(* stages lists what the run has done, in order:                           *)
(*   "info"         the no-file message was written (line 201)             *)
(*   "read"         the file was read into df (lines 76-79)                *)
(*   "preview"      df.head() was written (line 85)                        *)
(*   "validate"     the columns were tested (line 90)                      *)
(*   "aggregate"    the query was executed (line 107)                      *)
(*   "chart"        the chart was written (line 119)                       *)
(*   "rule"         the rule-based block was entered (line 126)            *)
(*   "commentary"   generate_ai_commentary returned (line 147)             *)
(*   "chat_init"    the chat history was assigned (line 157)               *)
(*   "chat_display" the chat input was written (line 176)                  *)
(*   "chat_input"   the user turn was appended (line 177)                  *)
(*   "chat_answer"  the assistant turn was appended (line 195)             *)
(***************************************************************************)
\* A run as the interaction creates it: the value the upload widget
\* returns to it and whether the interaction put a new file there, the
\* value the chat input returns to it, nothing executed.
NewRun(file, asks) ==
    [pc |-> "start", stopping |-> FALSE, outcome |-> "running",
     client |-> <<>>,
     uploaded_file |-> file, new_file |-> file \notin {<<>>, file_widget},
     question |-> asks, stages |-> <<>>,
     region_sales |-> <<>>, insight |-> <<>>, ai_text |-> <<>>,
     messages |-> <<>>, answer |-> <<>>, commentary_call |-> <<>>,
     chat_call |-> <<>>]

Live(r) == r.pc # "done"

End_ClearsSession(i, r, out, ss) ==
    /\ runs' = IF i < Len(runs)
               THEN SubSeq(runs, 1, i - 1) \o SubSeq(runs, i + 1, Len(runs))
               ELSE [runs EXCEPT ![i] = [r EXCEPT !.pc = "done", !.outcome = out]]
    /\ session_state' = <<>>
    /\ chat_input_shown' = IF i < Len(runs) THEN chat_input_shown
                           ELSE "chat_display" \in Range(r.stages)

\* Run i ends as out, with locals r.  The page keeps what the latest run
\* of the session wrote, so the chat input stays on it when that run wrote
\* it; a run that an interaction has superseded leaves nothing but its
\* writes to st.session_state.
End(i, r, out, ss) ==
    /\ runs' = IF i < Len(runs)
               THEN SubSeq(runs, 1, i - 1) \o SubSeq(runs, i + 1, Len(runs))
               ELSE [runs EXCEPT ![i] = [r EXCEPT !.pc = "done", !.outcome = out]]
    /\ session_state' = ss
    /\ chat_input_shown' = IF i < Len(runs) THEN chat_input_shown
                           ELSE "chat_display" \in Range(r.stages)

\* Run i goes on with locals r.
Continue(i, r, ss) ==
    /\ runs' = [runs EXCEPT ![i] = r]
    /\ session_state' = ss

\* Run i is stopped at the yield point it is at, with locals r.
Interrupted(i, r) == End(i, r, "interrupted", session_state)

\* Lines 11-30: the page setup, the title and the caption, then the
\* client is made from the environment.
PageSetup(i) ==
    LET r == runs[i] IN
    IF r.stopping
    THEN Interrupted(i, r)
    ELSE /\ UNCHANGED chat_input_shown
         /\ Continue(i, [r EXCEPT !.pc = "at69",
                                  !.client = <<GROQ_API_KEY>>],
                     session_state)

\* Lines 69-79: the upload widget returns the file of the run, which is
\* read into df.
FileUploader(i) ==
    LET r == runs[i] IN
    IF r.stopping
    THEN Interrupted(i, r)
    ELSE /\ UNCHANGED chat_input_shown
         /\ IF r.uploaded_file = <<>>
            THEN Continue(i, [r EXCEPT !.pc = "at201"], session_state)
            ELSE Continue(i, [r EXCEPT !.pc = "at84",
                                       !.stages = Append(@, "read")],
                          session_state)

\* Lines 200-201: without a file the message is written and the script
\* is over.
UploadInfo(i) ==
    LET r == runs[i] IN
    IF r.stopping
    THEN Interrupted(i, r)
    ELSE End(i, [r EXCEPT !.stages = Append(@, "info")], "no_file",
             session_state)

\* Line 84: the subheader of the preview.
PreviewHeader(i) ==
    LET r == runs[i] IN
    IF r.stopping
    THEN Interrupted(i, r)
    ELSE /\ UNCHANGED chat_input_shown
         /\ Continue(i, [r EXCEPT !.pc = "at85"], session_state)

\* Lines 85-90: the preview is written and the columns are tested.
DataPreview(i) ==
    LET r == runs[i]
        r1 == [r EXCEPT !.stages = Append(@, "preview")]
    IN
    IF r.stopping
    THEN Interrupted(i, r)
    ELSE /\ UNCHANGED chat_input_shown
         /\ Continue(i, [r1 EXCEPT !.pc = IF HasRequiredColumns(r.uploaded_file[1])
                                          THEN "at97" ELSE "at91",
                                   !.stages = Append(@, "validate")],
                     session_state)

\* Lines 91-92: the warning is written and st.stop() ends the run.
MissingColumns(i) ==
    LET r == runs[i] IN
    End(i, r, IF r.stopping THEN "interrupted" ELSE "stopped", session_state)

\* Lines 97-112: the subheader of the dashboard, the query (which raises
\* on a df without the columns it names) and the figure.
Aggregation(i) ==
    LET r == runs[i] IN
    IF r.stopping
    THEN Interrupted(i, r)
    ELSE IF ~QueryBinds(r.uploaded_file[1])
    THEN End(i, [r EXCEPT !.stages = Append(@, "aggregate")],
             "BinderException", session_state)
    ELSE /\ UNCHANGED chat_input_shown
         /\ \E rs \in query(r.uploaded_file[1]) :
                Continue(i, [r EXCEPT !.pc = "at119",
                                      !.stages = Append(@, "aggregate"),
                                      !.region_sales = rs],
                         session_state)

\* Line 119: the chart is written.
Visualization(i) ==
    LET r == runs[i] IN
    IF r.stopping
    THEN Interrupted(i, r)
    ELSE /\ UNCHANGED chat_input_shown
         /\ Continue(i, [r EXCEPT !.pc = "at124",
                                  !.stages = Append(@, "chart")],
                     session_state)

\* Lines 124-139: the subheader and the rule-based block, in which
\* iloc[0] raises on an empty summary.
RuleBlock(i) ==
    LET r == runs[i]
        r1 == [r EXCEPT !.stages = Append(@, "rule")]
    IN
    IF r.stopping
    THEN Interrupted(i, r)
    ELSE IF r.region_sales = <<>>
    THEN End(i, r1, "IndexError", session_state)
    ELSE /\ UNCHANGED chat_input_shown
         /\ Continue(i, [r1 EXCEPT !.pc = "at141",
                                   !.insight = <<RuleInsight(r.region_sales)>>],
                     session_state)

\* Lines 141-147: the rule-based commentary and the next subheader are
\* written and generate_ai_commentary is called, which returns at once
\* without a client and waits in the provider call with one.
RuleCommentary(i) ==
    LET r == runs[i]
        ai == generate_ai_commentary(r.client[1], r.region_sales, NoCall)
    IN
    IF r.stopping
    THEN Interrupted(i, r)
    ELSE /\ UNCHANGED chat_input_shown
         /\ IF r.client[1]
            THEN Continue(i, [r EXCEPT !.pc = "wait_commentary"], session_state)
            ELSE Continue(i, [r EXCEPT !.pc = "at148",
                                       !.stages = Append(@, "commentary"),
                                       !.ai_text = <<ai.text>>,
                                       !.commentary_call = ai.calls],
                          session_state)

\* Lines 56-64: the provider call of generate_ai_commentary returns or
\* raises, and the function returns its text.
CommentaryReturns(i) ==
    LET r == runs[i] IN
    /\ UNCHANGED chat_input_shown
    /\ \E cr \in ProviderResults :
        LET ai == generate_ai_commentary(r.client[1], r.region_sales, cr) IN
        Continue(i, [r EXCEPT !.pc = "at148",
                              !.stages = Append(@, "commentary"),
                              !.ai_text = <<ai.text>>,
                              !.commentary_call = ai.calls],
                 session_state)

\* Lines 148-153: st.write(ai_text) and the subheader of the chat.
ShowCommentary(i) ==
    LET r == runs[i] IN
    IF r.stopping
    THEN Interrupted(i, r)
    ELSE /\ UNCHANGED chat_input_shown
         /\ Continue(i, [r EXCEPT !.pc = "at156"], session_state)

\* Line 156: the test whether st.session_state has a chat history.  A run
\* asked to stop ends at this access of st.session_state, as at the later
\* ones.
TestHistory(i) ==
    LET r == runs[i] IN
    IF r.stopping
    THEN Interrupted(i, r)
    ELSE /\ UNCHANGED chat_input_shown
         /\ Continue(i, [r EXCEPT !.pc = IF ChatHistoryAbsent(session_state)
                                         THEN "at157" ELSE "at169"],
                     session_state)

\* Lines 157-166: the chat history is assigned.
InitHistory(i) ==
    LET r == runs[i] IN
    IF r.stopping
    THEN Interrupted(i, r)
    ELSE /\ UNCHANGED chat_input_shown
         /\ Continue(i, [r EXCEPT !.pc = "at169",
                                  !.stages = Append(@, "chat_init")],
                     InitChatHistory(session_state, r.ai_text[1]))

\* Lines 169-173: the turns of the history are written, the first of
\* which is a yield point.
ShowHistory(i) ==
    LET r == runs[i] IN
    IF r.stopping
    THEN Interrupted(i, r)
    ELSE /\ UNCHANGED chat_input_shown
         /\ Continue(i, [r EXCEPT !.pc = "at176"], session_state)

\* Line 176: the chat input is written and returns the question of the
\* run; a run without one is over.
ChatInput(i) ==
    LET r == runs[i]
        r1 == [r EXCEPT !.stages = Append(@, "chat_display")]
    IN
    IF r.stopping
    THEN Interrupted(i, r)
    ELSE IF r.question = <<>>
    THEN End(i, r1, "completed", session_state)
    ELSE /\ chat_input_shown' = (IF i < Len(runs) THEN chat_input_shown
                                 ELSE TRUE)
         /\ Continue(i, [r1 EXCEPT !.pc = "at177"], session_state)

\* Line 177: st.session_state.chat_history is evaluated, which gives the
\* list of the session.
UserTurnAccess(i) ==
    LET r == runs[i] IN
    IF r.stopping
    THEN Interrupted(i, r)
    ELSE /\ UNCHANGED chat_input_shown
         /\ Continue(i, [r EXCEPT !.pc = "at178"], session_state)

\* Lines 177-179: .append of the user turn to that list, as it is now.
AppendUserTurn(i) ==
    LET r == runs[i] IN
    /\ UNCHANGED chat_input_shown
    /\ Continue(i, [r EXCEPT !.pc = "at180",
                             !.stages = Append(@, "chat_input")],
                AppendTurn(session_state, Turn("user", r.question[1])))

\* Lines 180-182 and 192-193: the question is written; without a client
\* the answer is the sentinel.
ShowQuestion(i) ==
    LET r == runs[i]
        reply == ChatAnswer(r.client[1], <<>>, NoCall)
    IN
    IF r.stopping
    THEN Interrupted(i, r)
    ELSE /\ UNCHANGED chat_input_shown
         /\ IF r.client[1]
            THEN Continue(i, [r EXCEPT !.pc = "at186"], session_state)
            ELSE Continue(i, [r EXCEPT !.pc = "at195",
                                       !.answer = <<reply.answer>>,
                                       !.chat_call = reply.calls],
                          session_state)

\* Line 186: st.session_state.chat_history is evaluated, which gives the
\* list of the session.
MessagesAccess(i) ==
    LET r == runs[i] IN
    IF r.stopping
    THEN Interrupted(i, r)
    ELSE /\ UNCHANGED chat_input_shown
         /\ Continue(i, [r EXCEPT !.pc = "at187"], session_state)

\* Lines 183-188: the provider is called with that list as it is now, and
\* the run waits.
CallChat(i) ==
    LET r == runs[i] IN
    /\ UNCHANGED chat_input_shown
    /\ Continue(i, [r EXCEPT !.pc = "wait_chat",
                             !.messages = session_state.chat_history],
                session_state)

\* Lines 184-191: the provider call of the chat returns or raises.
ChatReturns(i) ==
    LET r == runs[i] IN
    /\ UNCHANGED chat_input_shown
    /\ \E ar \in ProviderResults :
        LET reply == ChatAnswer(r.client[1], r.messages, ar) IN
        Continue(i, [r EXCEPT !.pc = "at195",
                              !.answer = <<reply.answer>>,
                              !.chat_call = reply.calls],
                 session_state)

\* Line 195: st.session_state.chat_history is evaluated, which gives the
\* list of the session.
AnswerAccess(i) ==
    LET r == runs[i] IN
    IF r.stopping
    THEN Interrupted(i, r)
    ELSE /\ UNCHANGED chat_input_shown
         /\ Continue(i, [r EXCEPT !.pc = "at196"], session_state)

\* Lines 195-197: .append of the assistant turn to that list, as it is
\* now.
AppendAssistantTurn(i) ==
    LET r == runs[i] IN
    /\ UNCHANGED chat_input_shown
    /\ Continue(i, [r EXCEPT !.pc = "at198",
                             !.stages = Append(@, "chat_answer")],
                AppendTurn(session_state, Turn("assistant", r.answer[1])))

\* Line 198: the answer is written and the script is over.
ShowAnswer(i) ==
    LET r == runs[i] IN
    End(i, r, IF r.stopping THEN "interrupted" ELSE "completed", session_state)

\* The next step of run i.
RunStep(i) ==
    CASE runs[i].pc = "start" -> PageSetup(i)
      [] runs[i].pc = "at69" -> FileUploader(i)
      [] runs[i].pc = "at201" -> UploadInfo(i)
      [] runs[i].pc = "at84" -> PreviewHeader(i)
      [] runs[i].pc = "at85" -> DataPreview(i)
      [] runs[i].pc = "at91" -> MissingColumns(i)
      [] runs[i].pc = "at97" -> Aggregation(i)
      [] runs[i].pc = "at119" -> Visualization(i)
      [] runs[i].pc = "at124" -> RuleBlock(i)
      [] runs[i].pc = "at141" -> RuleCommentary(i)
      [] runs[i].pc = "wait_commentary" -> CommentaryReturns(i)
      [] runs[i].pc = "at148" -> ShowCommentary(i)
      [] runs[i].pc = "at156" -> TestHistory(i)
      [] runs[i].pc = "at157" -> InitHistory(i)
      [] runs[i].pc = "at169" -> ShowHistory(i)
      [] runs[i].pc = "at176" -> ChatInput(i)
      [] runs[i].pc = "at177" -> UserTurnAccess(i)
      [] runs[i].pc = "at178" -> AppendUserTurn(i)
      [] runs[i].pc = "at180" -> ShowQuestion(i)
      [] runs[i].pc = "at186" -> MessagesAccess(i)
      [] runs[i].pc = "at187" -> CallChat(i)
      [] runs[i].pc = "wait_chat" -> ChatReturns(i)
      [] runs[i].pc = "at195" -> AnswerAccess(i)
      [] runs[i].pc = "at196" -> AppendAssistantTurn(i)
      [] runs[i].pc = "at198" -> ShowAnswer(i)
      [] OTHER -> FALSE

\* A run of the session takes a step; the runs of a session are threads
\* that nothing orders.
Step ==
    /\ \E i \in DOMAIN runs : RunStep(i)
    /\ UNCHANGED <<GROQ_API_KEY, file_widget>>

(***************************************************************************)
(* The session: construction and the user's interactions.                  *)
(***************************************************************************)
\* A new session has run the script once, with no file in the widget.
\* The environment of the server process, with or without GROQ_API_KEY,
\* is the same for all the runs of the session.
Init ==
    /\ GROQ_API_KEY \in BOOLEAN
    /\ file_widget = <<>>
    /\ chat_input_shown = FALSE
    /\ session_state = <<>>
    /\ runs = <<[NewRun(<<>>, <<>>) EXCEPT !.pc = "done",
                                           !.outcome = "no_file",
                                           !.client = <<GROQ_API_KEY>>,
                                           !.stages = <<"info">>]>>

\* The runs that have not ended, asked to stop.
AskedToStop ==
    LET live == SelectSeq(runs, Live) IN
    [k \in DOMAIN live |-> [live[k] EXCEPT !.stopping = TRUE]]

\* An interaction starts a run with the widget values file and asks: the
\* runs of the session that have not ended are asked to stop, and the new
\* run starts at once.
StartRun(file, asks) ==
    /\ Len(AskedToStop) < MaxRuns
    /\ file_widget' = file
    /\ runs' = Append(AskedToStop, NewRun(file, asks))
    /\ UNCHANGED <<GROQ_API_KEY, chat_input_shown, session_state>>

\* The user puts a file into the upload widget: a table (df) with one of
\* the column sets colsets and m to n rows over regions and sales.
UploadOf(colsets, regions, sales, m, n) ==
    \E cols \in colsets : \E k \in m..n :
        \E rs \in [1..k -> RowsOver(cols, regions, sales)] :
            StartRun(<<[columns |-> cols, rows |-> rs]>>, <<>>)

\* The column sets without Region, without Sales and without both.
MissingColumnSets ==
    {cols \in SUBSET ColumnNames :
        "Profit" \in cols /\ ~({"Region", "Sales"} \subseteq cols)}

\* The files offered to a session: tables with the required columns and
\* no or few rows of one category and value, as the session does not
\* depend on the contents of the rows, and tables that lack Region, Sales
\* or both, which the validation refuses whatever their rows.
Upload ==
    \/ UploadOf({{"Region", "Sales"}}, {"A"}, {2}, 0, MaxSessionRows)
    \/ UploadOf(MissingColumnSets, {"A"}, {2}, MaxSessionRows, MaxSessionRows)

\* The user removes the file from the upload widget.
ClearFile ==
    /\ file_widget # <<>>
    /\ StartRun(<<>>, <<>>)

\* The user reruns the script without changing a widget.
Rerun == StartRun(file_widget, <<>>)

\* The questions submitted so far that are or may still get into the
\* history.
UserTurns ==
    (IF "chat_history" \in DOMAIN session_state
     THEN Cardinality({k \in DOMAIN session_state.chat_history :
                          session_state.chat_history[k].role = "user"})
     ELSE 0)
    + Cardinality({k \in DOMAIN runs :
                      /\ runs[k].question # <<>>
                      /\ Live(runs[k])
                      /\ "chat_input" \notin Range(runs[k].stages)})

\* The user submits a question in the chat input, which is on the page
\* once a run has shown it.
SubmitChat ==
    /\ chat_input_shown
    /\ UserTurns < MaxChats
    /\ \E q \in Questions : StartRun(file_widget, <<q>>)

\* The user presses Stop: the runs are asked to stop and none is started.
Stop ==
    /\ \E k \in DOMAIN runs : Live(runs[k]) /\ ~runs[k].stopping
    /\ runs' = AskedToStop
    /\ UNCHANGED <<GROQ_API_KEY, file_widget, chat_input_shown, session_state>>

Next == Upload \/ ClearFile \/ Rerun \/ SubmitChat \/ Stop \/ Step

Spec == Init /\ [][Next]_vars

\* The first upload of a session, over all bounded tables, and the steps
\* of its run: the specification under which the aggregation is checked.
FirstUpload ==
    /\ file_widget = <<>>
    /\ session_state = <<>>
    /\ \A k \in DOMAIN runs : ~Live(runs[k])
    /\ UploadOf({{"Region", "Sales"}}, Regions, SalesValues, 0, MaxRows)

AggNext == FirstUpload \/ Step

AggSpec == Init /\ [][AggNext]_vars

TypeOK ==
    /\ GROQ_API_KEY \in BOOLEAN
    /\ chat_input_shown \in BOOLEAN
    /\ Len(file_widget) <= 1
    /\ DOMAIN session_state \subseteq {"chat_history"}
    /\ Len(runs) >= 1
    /\ Len(runs) <= MaxRuns
    /\ \A k \in DOMAIN runs :
           /\ runs[k].new_file \in BOOLEAN
           /\ runs[k].stopping \in BOOLEAN
           /\ runs[k].pc \in {"start", "at69", "at201", "at84", "at85", "at91",
                              "at97", "at119", "at124", "at141",
                              "wait_commentary",
                              "at148", "at156", "at157", "at169", "at176",
                              "at177", "at178", "at180", "at186", "at187",
                              "wait_chat", "at195", "at196", "at198",
                              "done"}
           /\ runs[k].outcome \in {"running", "no_file", "stopped",
                                   "IndexError", "completed", "interrupted"}
           /\ Live(runs[k]) <=> runs[k].outcome = "running"
           /\ k < Len(runs) => runs[k].stopping
           /\ runs[k].client \in {<<>>, <<GROQ_API_KEY>>}
           /\ runs[k].pc \notin {"start", "done"} => runs[k].client # <<>>
           /\ Len(runs[k].uploaded_file) <= 1
           /\ Len(runs[k].question) <= 1
           /\ Len(runs[k].insight) <= 1
           /\ Len(runs[k].ai_text) <= 1
           /\ Len(runs[k].answer) <= 1
           /\ Len(runs[k].commentary_call) <= 1
           /\ Len(runs[k].chat_call) <= 1

(***************************************************************************)
(* Properties.                                                             *)
(***************************************************************************)
HasHistory == "chat_history" \in DOMAIN session_state
History == session_state.chat_history

\* The latest run of the session.
Latest == runs[Len(runs)]

\* No run of the session is under way.
Quiet == \A k \in DOMAIN runs : ~Live(runs[k])

\* The file of run r has both required columns.
FileValid(r) ==
    /\ r.uploaded_file # <<>>
    /\ "Region" \in r.uploaded_file[1].columns
    /\ "Sales" \in r.uploaded_file[1].columns

\* The file of run r lacks a required column.
FileInvalid(r) ==
    /\ r.uploaded_file # <<>>
    /\ \/ "Region" \notin r.uploaded_file[1].columns
       \/ "Sales" \notin r.uploaded_file[1].columns

\* C1: whenever a run started by the upload of a different file has
\* completed, the transcript is the fresh seed: the persona turn and the
\* commentary computed in that run for the new file, and nothing from
\* before the upload.
C1_ResetOnNewDataset ==
    \A k \in DOMAIN runs :
        (runs[k].new_file /\ runs[k].outcome = "completed") =>
            /\ HasHistory
            /\ History = <<Turn("system", SYSTEM_PERSONA),
                           Turn("assistant", runs[k].ai_text[1])>>

\* The sequence s is an initial part of the sequence t.
IsPrefix(s, t) == Len(s) <= Len(t) /\ SubSeq(t, 1, Len(s)) = s

\* C2: a run on a file that lacks Region or Sales gets no further than
\* the validation: it reads, previews and tests the columns, and ends at
\* st.stop() unless it was asked to stop, with no aggregation, no chart,
\* no rule-based insight, no call of the commentary function and no chat
\* section.
C2_ValidationHalts ==
    \A k \in DOMAIN runs :
        FileInvalid(runs[k]) =>
            /\ runs[k].pc \in {"start", "at69", "at84", "at85", "at91", "done"}
            /\ runs[k].outcome \in {"running", "stopped", "interrupted"}
            /\ (runs[k].pc = "done" /\ ~runs[k].stopping)
                   => runs[k].outcome = "stopped"
            /\ IsPrefix(runs[k].stages, <<"read", "preview", "validate">>)
            /\ runs[k].outcome = "stopped"
                   => runs[k].stages = <<"read", "preview", "validate">>
            /\ runs[k].region_sales = <<>>
            /\ runs[k].insight = <<>>
            /\ runs[k].ai_text = <<>>
            /\ runs[k].commentary_call = <<>>
            /\ runs[k].messages = <<>>
            /\ runs[k].chat_call = <<>>

\* C2 witness: in a session that already has a transcript a file without
\* Region was uploaded and its run tested the columns, then a file with
\* neither Region nor Sales was uploaded and its run ended at st.stop().
C2_Witness ==
    /\ HasHistory
    /\ Len(runs) = 2
    /\ runs[1].uploaded_file # <<>>
    /\ runs[1].uploaded_file[1].columns = {"Sales", "Profit"}
    /\ runs[1].uploaded_file[1].rows # <<>>
    /\ runs[1].pc = "at91"
    /\ runs[1].stages = <<"read", "preview", "validate">>
    /\ Latest.uploaded_file # <<>>
    /\ Latest.uploaded_file[1].columns = {"Profit"}
    /\ Latest.uploaded_file[1].rows # <<>>
    /\ Latest.outcome = "stopped"

\* C3: a run on a file with both columns and zero rows ends with the
\* EmptyDatasetError outcome and never attempts the rule-based insight.
C3_EmptyDataset ==
    \A k \in DOMAIN runs :
        (/\ FileValid(runs[k])
         /\ runs[k].uploaded_file[1].rows = <<>>
         /\ runs[k].pc = "done"
         /\ runs[k].outcome # "interrupted") =>
            /\ runs[k].outcome = "EmptyDatasetError"
            /\ "rule" \notin Range(runs[k].stages)
            /\ runs[k].insight = <<>>

\* C4 as claimed: without a credential every assistant turn of the
\* transcript, the seed and the chat answers alike, carries the sentinel
\* that generate_ai_commentary returns in disabled mode.
C4_SingleSentinel ==
    (~GROQ_API_KEY /\ HasHistory) =>
        \A i \in DOMAIN History :
            History[i].role = "assistant"
                => History[i].content = COMMENTARY_DISABLED

\* C4 amended: without a credential the seed carries the commentary
\* sentinel and every later assistant turn carries the one fixed chat
\* sentinel, a different text.
C4_DisabledSentinels ==
    (~GROQ_API_KEY /\ HasHistory) =>
        /\ History[2].content = COMMENTARY_DISABLED
        /\ \A i \in DOMAIN History :
               (i > 2 /\ History[i].role = "assistant")
                   => History[i].content = CHAT_DISABLED
        /\ CHAT_DISABLED # COMMENTARY_DISABLED

\* C4 witness: a credential-less session after two answered chat
\* submissions.
C4_Witness ==
    /\ ~GROQ_API_KEY
    /\ HasHistory
    /\ Len(History) = 6
    /\ History[4] = Turn("assistant", CHAT_DISABLED)
    /\ History[6] = Turn("assistant", CHAT_DISABLED)

\* C5: without a credential no run has a client and none issues a
\* provider call, neither for the commentary nor for a chat turn, or
\* waits for one.
C5_NoCallWithoutCredential ==
    ~GROQ_API_KEY =>
        \A k \in DOMAIN runs :
            /\ runs[k].client # <<TRUE>>
            /\ runs[k].commentary_call = <<>>
            /\ runs[k].chat_call = <<>>
            /\ runs[k].messages = <<>>
            /\ runs[k].pc \notin {"wait_commentary", "at186", "at187",
                                   "wait_chat"}

\* C5 witness: a credential-less run that computed the commentary and
\* answered a chat question.
C5_Witness ==
    /\ ~GROQ_API_KEY
    /\ Latest.outcome = "completed"
    /\ Latest.ai_text # <<>>
    /\ Latest.question # <<>>
    /\ Latest.answer # <<>>
    /\ Len(History) >= 4

\* C6: once the runs of the chat submissions are over, every submission
\* has extended the transcript by exactly two turns, a user turn and the
\* assistant turn that answers it: the transcript has an even length and
\* no user turn is left without a following assistant turn.
C6_SubmitGrowsByTwo ==
    (HasHistory /\ Quiet) =>
        /\ Len(History) % 2 = 0
        /\ \A i \in DOMAIN History :
               History[i].role = "user"
                   => /\ i < Len(History)
                      /\ History[i + 1].role = "assistant"

\* C7: the step that creates the transcript leaves exactly two turns: the
\* system turn with the persona instruction, then the assistant turn with
\* the text generate_ai_commentary returned in the run that takes the
\* step, which is the provider's completion, the error sentinel or the
\* disabled sentinel.
C7_Seeding ==
    [][(~HasHistory /\ "chat_history" \in DOMAIN session_state') =>
        \E i \in DOMAIN runs :
            /\ runs[i].pc = "at157"
            /\ runs' = [runs EXCEPT ![i].pc = "at169",
                                    ![i].stages = Append(@, "chat_init")]
            /\ FileValid(runs[i])
            /\ Len(session_state'.chat_history) = 2
            /\ session_state'.chat_history[1] = Turn("system", SYSTEM_PERSONA)
            /\ session_state'.chat_history[2]
                   = Turn("assistant", runs[i].ai_text[1])
            /\ runs[i].ai_text[1] =
                   (IF runs[i].commentary_call = <<>> THEN COMMENTARY_DISABLED
                    ELSE IF runs[i].commentary_call[1].result.ok
                         THEN runs[i].commentary_call[1].result.text
                         ELSE COMMENTARY_ERROR
                                  \o runs[i].commentary_call[1].result.text)]_vars

\* C7 witness: the transcript was seeded in a run whose commentary call
\* failed, so the seed is the error sentinel.
C7_Witness ==
    /\ HasHistory
    /\ Len(History) = 2
    /\ "chat_init" \in Range(Latest.stages)
    /\ Latest.commentary_call # <<>>
    /\ ~Latest.commentary_call[1].result.ok
    /\ History[2].content
           = COMMENTARY_ERROR \o Latest.commentary_call[1].result.text

\* C8: a failed provider call never ends the run with an exception: a
\* failed commentary call yields the commentary error sentinel embedding
\* the error and the run goes on with it, a failed chat call yields the
\* chat error sentinel embedding the error, which is the answer the run
\* appends as the assistant turn on its way to completion.
C8_ProviderErrorsAbsorbed ==
    \A k \in DOMAIN runs :
        /\ (/\ runs[k].commentary_call # <<>>
            /\ ~runs[k].commentary_call[1].result.ok) =>
               /\ runs[k].ai_text =
                      <<COMMENTARY_ERROR
                            \o runs[k].commentary_call[1].result.text>>
               /\ "commentary" \in Range(runs[k].stages)
               /\ runs[k].pc \in {"at148", "at156", "at157", "at169", "at176",
                                  "at177", "at178", "at180", "at186",
                                  "at187", "wait_chat", "at195", "at196",
                                  "at198", "done"}
               /\ runs[k].outcome \in {"running", "completed", "interrupted"}
               /\ runs[k].outcome = "completed" => HasHistory
        /\ (runs[k].chat_call # <<>> /\ ~runs[k].chat_call[1].result.ok) =>
               /\ runs[k].answer =
                      <<CHAT_ERROR \o runs[k].chat_call[1].result.text>>
               /\ runs[k].pc \in {"at195", "at196", "at198", "done"}
               /\ runs[k].outcome \in {"running", "completed", "interrupted"}
               /\ runs[k].outcome = "completed"
                      => "chat_answer" \in Range(runs[k].stages)
               /\ (~runs[k].stopping /\ runs[k].pc = "done")
                      => runs[k].outcome = "completed"

\* C8 witness: a completed run in which both the commentary call and the
\* chat call failed, with the chat error sentinel as the last turn.
C8_Witness ==
    /\ GROQ_API_KEY
    /\ Latest.commentary_call # <<>>
    /\ ~Latest.commentary_call[1].result.ok
    /\ Latest.chat_call # <<>>
    /\ ~Latest.chat_call[1].result.ok
    /\ Latest.outcome = "completed"
    /\ History[Len(History)]
           = Turn("assistant", CHAT_ERROR \o Latest.chat_call[1].result.text)

\* The sum of the Sales of the rows whose category is in cats.
RECURSIVE SalesOf(_, _)
SalesOf(rows, cats) ==
    IF rows = <<>> THEN 0
    ELSE (IF Head(rows)["Region"] \in cats THEN Head(rows)["Sales"] ELSE 0)
             + SalesOf(Tail(rows), cats)

RECURSIVE TotalsOf(_)
TotalsOf(rs) ==
    IF rs = <<>> THEN 0 ELSE Head(rs).Total_Sales + TotalsOf(Tail(rs))

CategoriesOf(rows) == {rows[i]["Region"] : i \in DOMAIN rows}

\* Run r has executed the aggregation query on a non-empty dataset.
Aggregated(r) ==
    /\ FileValid(r)
    /\ r.uploaded_file[1].rows # <<>>
    /\ "aggregate" \in Range(r.stages)

\* C9: for a non-empty valid dataset the summary has one entry per
\* category of the dataset, each total is the sum of Sales over the rows
\* of that category, negative values included, and the totals add up to
\* the sum of Sales over all rows.
C9_Conservation ==
    \A k \in DOMAIN runs :
        Aggregated(runs[k]) =>
            LET rows == runs[k].uploaded_file[1].rows
                region_sales == runs[k].region_sales
            IN  /\ {region_sales[i].Region : i \in DOMAIN region_sales}
                       = CategoriesOf(rows)
                /\ Len(region_sales) = Cardinality(CategoriesOf(rows))
                /\ \A i \in DOMAIN region_sales :
                       region_sales[i].Total_Sales
                           = SalesOf(rows, {region_sales[i].Region})
                /\ TotalsOf(region_sales) = SalesOf(rows, Regions)

\* C9 witness: a dataset of three rows, two of one category of which one
\* is negative, aggregated into two categories.
C9_Witness ==
    /\ Aggregated(Latest)
    /\ Len(Latest.uploaded_file[1].rows) = 3
    /\ Len(Latest.region_sales) = 2
    /\ \E i, j \in 1..3 :
           /\ i # j
           /\ Latest.uploaded_file[1].rows[i]["Region"]
                  = Latest.uploaded_file[1].rows[j]["Region"]
           /\ Latest.uploaded_file[1].rows[i]["Sales"] < 0
           /\ Latest.uploaded_file[1].rows[j]["Sales"] > 0
    /\ \E i \in 1..2 : Latest.region_sales[i].Total_Sales < 0

\* The position of the first row of category r.
FirstSeen(rows, r) == CHOOSE i \in DOMAIN rows :
    /\ rows[i]["Region"] = r
    /\ \A j \in 1..(i - 1) : rows[j]["Region"] # r

\* C10 as claimed: the summary is sorted by total descending and
\* categories with equal totals appear in first-seen order.
C10_StableOrder ==
    \A k \in DOMAIN runs :
        Aggregated(runs[k]) =>
            LET rows == runs[k].uploaded_file[1].rows
                region_sales == runs[k].region_sales
            IN  \A i, j \in DOMAIN region_sales : i < j =>
                    /\ region_sales[i].Total_Sales >= region_sales[j].Total_Sales
                    /\ region_sales[i].Total_Sales = region_sales[j].Total_Sales
                           => FirstSeen(rows, region_sales[i].Region)
                                  < FirstSeen(rows, region_sales[j].Region)

\* C10 amended: the summary is sorted by total descending; the query fixes
\* no order among categories with equal totals.
C10_SortedDescending ==
    \A k \in DOMAIN runs :
        Aggregated(runs[k]) =>
            LET region_sales == runs[k].region_sales
            IN  \A i, j \in DOMAIN region_sales : i < j =>
                    region_sales[i].Total_Sales >= region_sales[j].Total_Sales

\* C10 witness: three categories, first seen in ascending order of their
\* totals, returned with the largest first and the smallest last.
C10_Witness ==
    /\ Aggregated(Latest)
    /\ Latest.outcome = "completed"
    /\ Len(Latest.region_sales) = 3
    /\ Latest.region_sales[1].Total_Sales > Latest.region_sales[2].Total_Sales
    /\ Latest.region_sales[2].Total_Sales > Latest.region_sales[3].Total_Sales
    /\ Latest.uploaded_file[1].rows[1]["Region"] = Latest.region_sales[3].Region
    /\ Latest.uploaded_file[1].rows[3]["Region"] = Latest.region_sales[1].Region

\* The largest and the smallest total of a summary.
MaxTotal(rs) == CHOOSE v \in {rs[i].Total_Sales : i \in DOMAIN rs} :
    \A i \in DOMAIN rs : rs[i].Total_Sales <= v
MinTotal(rs) == CHOOSE v \in {rs[i].Total_Sales : i \in DOMAIN rs} :
    \A i \in DOMAIN rs : rs[i].Total_Sales >= v

\* C11: once a run has executed the rule-based block on a non-empty
\* summary, the insight is computed; its top is the first element and
\* carries the highest total, its bottom is the last element and carries
\* the lowest total, the gap is the top value minus the bottom value, and
\* with one category top and bottom are the same category and the gap
\* is 0.
C11_RuleInsight ==
    \A k \in DOMAIN runs :
        (/\ FileValid(runs[k])
         /\ runs[k].region_sales # <<>>
         /\ "rule" \in Range(runs[k].stages)) =>
            LET region_sales == runs[k].region_sales
                insight == runs[k].insight
            IN  /\ Len(insight) = 1
                /\ insight[1].top_region = region_sales[1].Region
                /\ insight[1].top_value = MaxTotal(region_sales)
                /\ insight[1].bottom_region
                       = region_sales[Len(region_sales)].Region
                /\ insight[1].bottom_value = MinTotal(region_sales)
                /\ insight[1].gap_value
                       = MaxTotal(region_sales) - MinTotal(region_sales)
                /\ insight[1].gap_value >= 0
                /\ Len(region_sales) = 1 =>
                       /\ insight[1].top_region = insight[1].bottom_region
                       /\ insight[1].gap_value = 0

\* C11 witness: three categories with a negative lowest total, so the gap
\* exceeds the top value.
C11_Witness ==
    /\ Len(Latest.insight) = 1
    /\ Len(Latest.region_sales) = 3
    /\ Latest.insight[1].bottom_value < 0
    /\ Latest.insight[1].gap_value > Latest.insight[1].top_value
    /\ Latest.insight[1].top_region # Latest.insight[1].bottom_region

\* C12: in every step of a session a transcript that exists stays, and
\* the transcript before the step is a prefix of the transcript after it.
C12_AppendOnly ==
    [][HasHistory =>
        /\ "chat_history" \in DOMAIN session_state'
        /\ Len(session_state'.chat_history) >= Len(session_state.chat_history)
        /\ SubSeq(session_state'.chat_history, 1,
                  Len(session_state.chat_history))
               = session_state.chat_history]_vars

\* C12 witness: a transcript of six turns, grown by two answered
\* submissions, is still in place after the run of a later upload of a
\* file that fails the validation.
C12_Witness ==
    /\ HasHistory
    /\ Len(History) = 6
    /\ History[3].role = "user"
    /\ History[5].role = "user"
    /\ FileInvalid(Latest)
    /\ Latest.new_file
    /\ Latest.outcome = "stopped"

\* C13: with a credential, the messages of the provider call of a chat
\* submission are the transcript in order: they start with the seed
\* system and assistant turns and end with the user turn the run has just
\* appended, and the assistant turn gets into the transcript only after
\* the call, behind these messages.
C13_FullTranscriptAsContext ==
    \A k \in DOMAIN runs :
        runs[k].messages # <<>> =>
            LET messages == runs[k].messages IN
            /\ runs[k].client = <<TRUE>>
            /\ messages[1] = Turn("system", SYSTEM_PERSONA)
            /\ messages[2].role = "assistant"
            /\ messages[Len(messages)] = Turn("user", runs[k].question[1])
            /\ Len(History) >= Len(messages)
            /\ SubSeq(History, 1, Len(messages)) = messages

\* C14: once the runs of the chat submissions are over, a transcript that
\* exists has an even length of at least 2, its turn 1 is the only system
\* turn, its turn 2 is an assistant turn, and from turn 3 on the odd turns
\* are user turns and the even turns assistant turns.
C14_RoleStructure ==
    (HasHistory /\ Quiet) =>
        /\ Len(History) >= 2
        /\ Len(History) % 2 = 0
        /\ \A i \in DOMAIN History :
               History[i].role =
                   (IF i = 1 THEN "system"
                    ELSE IF i % 2 = 0 THEN "assistant" ELSE "user")

\* C15: in every run that reaches the end of the chat section, the
\* assistant seed turn of the transcript equals the commentary text
\* computed and displayed in that run.
C15_SeedAgreesWithCommentary ==
    \A k \in DOMAIN runs :
        (runs[k].outcome = "completed" /\ HasHistory) =>
            History[2].content = runs[k].ai_text[1]

\* C16: st.session_state changes only in a step of a run on a file with
\* both required columns and a non-empty summary that has computed the
\* commentary: the step that assigns the seed where no transcript is, the
\* step that appends the user turn with the run's question to a seeded
\* transcript, or the step that appends the assistant turn.  A run with
\* no file, with a file failing validation, or aborted before the chat
\* section takes none of these steps, and all the other steps leave
\* st.session_state as it was.
C16_SubmissionOnlyWhenActive ==
    [][session_state' # session_state =>
        \E i \in DOMAIN runs :
            /\ FileValid(runs[i])
            /\ runs[i].region_sales # <<>>
            /\ runs[i].ai_text # <<>>
            /\ runs[i].outcome = "running"
            /\ \/ /\ runs[i].pc = "at157"
                  /\ ~runs[i].stopping
                  /\ runs' = [runs EXCEPT ![i].pc = "at169",
                                          ![i].stages = Append(@, "chat_init")]
                  /\ ~HasHistory
                  /\ session_state'.chat_history
                         = <<Turn("system", SYSTEM_PERSONA),
                             Turn("assistant", runs[i].ai_text[1])>>
               \/ /\ runs[i].pc = "at178"
                  /\ runs' = [runs EXCEPT ![i].pc = "at180",
                                          ![i].stages = Append(@, "chat_input")]
                  /\ HasHistory
                  /\ History[1] = Turn("system", SYSTEM_PERSONA)
                  /\ History[2].role = "assistant"
                  /\ session_state'.chat_history
                         = Append(History, Turn("user", runs[i].question[1]))
               \/ /\ runs[i].pc = "at196"
                  /\ runs' = [runs EXCEPT ![i].pc = "at198",
                                          ![i].stages = Append(@, "chat_answer")]
                  /\ HasHistory
                  /\ session_state'.chat_history
                         = Append(History,
                                  Turn("assistant", runs[i].answer[1]))]_vars

\* C16 witness: a session with a transcript of four turns whose latest run
\* was aborted by the empty summary, with the transcript still in place.
C16_Witness ==
    /\ HasHistory
    /\ Len(History) = 4
    /\ Latest.outcome = "IndexError"
    /\ Latest.question = <<>>

====
